---- MODULE Spec2Model ----
(***************************************************************************)
(* MemoryDB (components/database/src/memory.rs): an in-memory key-value    *)
(* store, HashMap<Vec<u8>, Vec<u8>> behind Arc<RwLock<..>>, whose seven    *)
(* Database operations each encode their key(s) with gen_key and return a  *)
(* future; the future, when driven, takes the lock, works on the map and   *)
(* resolves.                                                               *)
(*                                                                         *)
(* Byte strings (Vec<u8>) are sequences of one-character strings.          *)
(* Option<T> is a sequence of length 0 (None) or 1 (Some).                 *)
(***************************************************************************)
EXTENDS Naturals, Sequences, FiniteSets, TLC

\* ------------------------------------------------------------- bounds
\* Number of future slots (callers) of the concurrent specification.
NumTasks == 2
\* Longest key list / value list handed to a batch operation.
MaxBatch == 2
\* Number of operations called in one behaviour of Spec.
MaxOps == 3
\* Number of operations called in one behaviour of SpecConc.
MaxConcOps == 3

VARIABLES
    storage,   \* the HashMap inside the RwLock: composite key -> record
    readers,   \* futures holding the RwLock's read guard
    writers,   \* futures holding the RwLock's write guard
    poisoned,  \* the RwLock's poison flag
    fut,       \* per slot: the future an operation returned, and its progress
    lastw,     \* history: per composite key, the last write the map took
    nops,      \* history: number of operations called so far
    linmap     \* history: the map after the operations that were granted the lock
               \* so far, each run alone and whole, in the order of the grants

vars == <<storage, readers, writers, poisoned, fut, lastw, nops, linmap>>

Tasks == 1 .. NumTasks

\* ------------------------------------------------------------- values
None == << >>
Some(v) == <<v>>
Unit == << >>

Ok(v) == [tag |-> "Ok", val |-> v]
Err(e) == [tag |-> "Err", val |-> e]
Pending == [tag |-> "Pending", val |-> << >>]

\* What the history variable lastw records of a composite key.
Never == <<"never">>
Removed == <<"removed">>
Written(v) == <<"written", v>>
\* A remove of a key that was never written leaves it never written.
AfterRemove(w) == IF w = Never THEN Never ELSE Removed

InvalidData == "InvalidData"
map_rwlock_err == "Internal(rwlock error)"

DataCategory ==
    {"Block", "Transaction", "Receipt", "State", "TransactionPool", "TransactionPosition"}

prefix(c) ==
    CASE c = "Block" -> <<"b", "l", "o", "c", "k", "-">>
      [] c = "Transaction" ->
            <<"t", "r", "a", "n", "s", "a", "c", "t", "i", "o", "n", "-">>
      [] c = "Receipt" -> <<"r", "e", "c", "e", "i", "p", "t", "-">>
      [] c = "State" -> <<"s", "t", "a", "t", "e", "-">>
      [] c = "TransactionPool" ->
            <<"t", "r", "a", "n", "s", "a", "c", "t", "i", "o", "n", "-",
              "p", "o", "o", "l", "-">>
      [] c = "TransactionPosition" ->
            <<"t", "r", "a", "n", "s", "a", "c", "t", "i", "o", "n", "-",
              "p", "o", "s", "i", "t", "i", "o", "n", "-">>

\* Mutant of gen_key: the category's prefix is left out.
gen_key_noprefix(c, key) == key

\* Mutant of gen_key: a structured key, the category's name and a separator in
\* place of the prefix literal.
gen_key_tagged(c, key) == <<c, ":">> \o key

\* Mutant of gen_key: the TransactionPosition arm carries TransactionPool's
\* literal.
gen_key_pasted(c, key) ==
    IF c = "TransactionPosition" THEN prefix("TransactionPool") \o key
    ELSE prefix(c) \o key

gen_key(c, key) == prefix(c) \o key

gen_keys(c, keys) == [i \in 1 .. Len(keys) |-> gen_key(c, keys[i])]

\* ------------------------------------------------------------- HashMap
MapGet(m, k) == IF k \in DOMAIN m THEN Some(m[k]) ELSE None

MapContainsKey(m, k) == k \in DOMAIN m

\* Mutant of MapInsert: an existing record is kept (entry().or_insert()).
MapInsertKeepOld(m, k, v) == [x \in (DOMAIN m) \cup {k} |-> IF x \in DOMAIN m THEN m[x] ELSE v]

MapInsert(m, k, v) == [x \in (DOMAIN m) \cup {k} |-> IF x = k THEN v ELSE m[x]]

\* Mutant of MapRemove: the whole map is emptied (HashMap::clear).
MapClear(m, k) == [x \in {} |-> << >>]

MapRemove(m, k) == [x \in (DOMAIN m) \ {k} |-> m[x]]

\* ------------------------------------------------------------- inputs
KeyX == <<"x">>
KeyPoolX == <<"p", "o", "o", "l", "-", "x">>
RawKeys == {KeyX, KeyPoolX}

\* Raw keys for the key encoder alone: short keys, and the same keys behind
\* "pool-" and "position-".
PoolDash == <<"p", "o", "o", "l", "-">>
PositionDash == <<"p", "o", "s", "i", "t", "i", "o", "n", "-">>
KeyTails == {<< >>, KeyX, PoolDash, PositionDash}
KeyInputs ==
    KeyTails \cup {PoolDash \o r : r \in KeyTails} \cup {PositionDash \o r : r \in KeyTails}

ValA == <<"a">>
ValB == <<"b">>
Values == {ValA, ValB}

\* Mutant of EmptyMap: a new store that already holds a record.
DirtyMap == [x \in {gen_key("Block", KeyX)} |-> ValA]

\* HashMap::new().
EmptyMap == [x \in {} |-> << >>]

SeqUpTo(S, n) == UNION {[1 .. m -> S] : m \in 0 .. n}

\* Categories the caller of Spec uses.
Cats == {"Block", "Transaction", "TransactionPool"}

\* Inputs of the callers of SpecConc: one category, one key for the single
\* operations, one two-key list for the batches, and value lists of which one
\* matches the key list in length and one does not.
ConcCats == {"Block"}
ConcKeys == {KeyX}
ConcKeyLists == {<<KeyX, KeyPoolX>>}
ConcValueLists == {<<ValA, ValB>>, <<ValA>>}

\* Every composite key a call of the model can form.
AllCKeys == {gen_key(c, k) : c \in DataCategory, k \in RawKeys}

\* ------------------------------------------------------------- futures
ReadOps == {"get", "get_batch", "contains"}
WriteOps == {"insert", "insert_batch", "remove", "remove_batch"}

\* No future in the slot.
Idle ==
    [op |-> "none", c |-> "none", raw |-> << >>, keys |-> << >>, values |-> << >>,
     pc |-> "idle", i |-> 0, out |-> << >>, res |-> Pending,
     alone |-> FALSE, exp |-> Pending, seen |-> "none"]

\* The future an operation returns: it has captured the encoded keys and the
\* values; c and raw are the call's arguments as the caller gave them.
\* History fields: alone, whether no other caller held a future when the call
\* made this one (so every future alive beside it was made later); exp, what
\* the operation returns when run alone and whole at the moment the lock is
\* granted; seen, the state the lock was in when a future resolved without
\* asking for it.
NewFut(op, c, raw, values) ==
    [op |-> op, c |-> c, raw |-> raw, keys |-> gen_keys(c, raw), values |-> values,
     pc |-> "created", i |-> 0, out |-> << >>, res |-> Pending,
     alone |-> FALSE, exp |-> Pending, seen |-> "none"]

\* No caller but t holds a future.
NoOther(t) == \A u \in Tasks \ {t} : fut[u].pc = "idle"

\* A free slot takes the future a call returns.
Created(t, f) ==
    /\ fut[t].pc = "idle"
    /\ fut' = [fut EXCEPT ![t] = [f EXCEPT !.alone = NoOther(t)]]
    /\ nops' = nops + 1
    /\ UNCHANGED <<storage, readers, writers, poisoned, lastw, linmap>>

Resolve(f, r) == [f EXCEPT !.pc = "done", !.res = r]

\* The operations run one at a time: what operation f, run alone and whole,
\* makes of map m, and what it returns on m.
RECURSIVE InsertAll(_, _, _)
InsertAll(m, ks, vs) ==
    IF ks = << >> THEN m
    ELSE InsertAll(MapInsert(m, Head(ks), Head(vs)), Tail(ks), Tail(vs))

RECURSIVE RemoveAll(_, _)
RemoveAll(m, ks) ==
    IF ks = << >> THEN m ELSE RemoveAll(MapRemove(m, Head(ks)), Tail(ks))

SeqApply(m, f) ==
    CASE Len(f.raw) # Len(f.values) /\ f.op = "insert_batch" -> m
      [] f.op \in {"insert", "insert_batch"} -> InsertAll(m, gen_keys(f.c, f.raw), f.values)
      [] f.op \in {"remove", "remove_batch"} -> RemoveAll(m, gen_keys(f.c, f.raw))
      [] OTHER -> m

SeqResult(m, f) ==
    CASE f.op = "get" -> Ok(MapGet(m, gen_key(f.c, f.raw[1])))
      [] f.op = "get_batch" ->
            Ok([j \in 1 .. Len(f.raw) |-> MapGet(m, gen_key(f.c, f.raw[j]))])
      [] f.op = "contains" -> Ok(MapContainsKey(m, gen_key(f.c, f.raw[1])))
      [] f.op = "insert_batch" /\ Len(f.raw) # Len(f.values) -> Err(InvalidData)
      [] OTHER -> Ok(Unit)

\* The lock is granted: the future is inside its critical section.
Granted(f, m) == [f EXCEPT !.pc = "locked", !.exp = SeqResult(m, f)]

\* .wait() hands the resolved future's result to the caller and the future is
\* dropped: the slot is free again.
wait(t) ==
    /\ fut[t].pc = "done"
    /\ fut' = [fut EXCEPT ![t] = Idle]
    /\ UNCHANGED <<storage, readers, writers, poisoned, lastw, nops, linmap>>

\* ------------------------------------------------------------- RwLock
\* storage.read(): waits while a writer holds the lock; a poisoned lock hands
\* out an error (the guard inside it is dropped by map_err at once).
\* Mutant of read: a poisoned lock is used as if it were sound
\* (unwrap_or_else(PoisonError::into_inner) in place of map_err(..)?).
read_unpoisoned(t) ==
    /\ fut[t].pc = "created"
    /\ writers = {}
    /\ fut' = [fut EXCEPT ![t] = Granted(@, linmap)]
    /\ readers' = readers \cup {t}
    /\ linmap' = SeqApply(linmap, fut[t])
    /\ UNCHANGED <<storage, writers, poisoned, lastw, nops>>

read(t) ==
    /\ fut[t].pc = "created"
    /\ writers = {}
    /\ IF poisoned
       THEN /\ fut' = [fut EXCEPT ![t].pc = "failing"]
            /\ readers' = readers \cup {t}
            /\ UNCHANGED linmap
       ELSE /\ fut' = [fut EXCEPT ![t] = Granted(@, linmap)]
            /\ readers' = readers \cup {t}
            /\ linmap' = SeqApply(linmap, fut[t])
    /\ UNCHANGED <<storage, writers, poisoned, lastw, nops>>

\* The state of the lock, as a history value.
LockState ==
    IF writers # {} THEN "write-held"
    ELSE IF readers # {} THEN "read-held"
    ELSE IF poisoned THEN "poisoned"
    ELSE "free"

\* storage.write(): waits while anyone holds the lock.
write(t) ==
    /\ fut[t].pc = "created"
    /\ writers = {}
    /\ readers = {}
    /\ IF poisoned
       THEN /\ fut' = [fut EXCEPT ![t].pc = "failing"]
            /\ writers' = writers \cup {t}
            /\ UNCHANGED linmap
       ELSE /\ fut' = [fut EXCEPT ![t] = Granted(@, linmap)]
            /\ writers' = writers \cup {t}
            /\ linmap' = SeqApply(linmap, fut[t])
    /\ UNCHANGED <<storage, readers, poisoned, lastw, nops>>

\* .map_err(|_| map_rwlock_err())? on a poisoned lock: storage.read() or
\* storage.write() has returned the PoisonError, which carries the guard; the
\* closure owns it while map_rwlock_err() builds the error, and drops it when
\* it returns. Only then is the lock released and the future resolved.
map_err(t) ==
    /\ fut[t].pc = "failing"
    /\ fut' = [fut EXCEPT ![t] = Resolve(@, Err(map_rwlock_err))]
    /\ readers' = readers \ {t}
    /\ writers' = writers \ {t}
    /\ UNCHANGED <<storage, poisoned, lastw, nops, linmap>>

\* The holder of the write guard terminates abnormally inside its critical
\* section: unwinding drops the guard, which releases the lock and poisons it.
\* The future never resolves; its slot is free for another caller. What the
\* holder had stored so far stays in the map.
panic(t) ==
    /\ fut[t].pc = "locked"
    /\ t \in writers
    /\ poisoned' = TRUE
    /\ writers' = writers \ {t}
    /\ fut' = [fut EXCEPT ![t] = Idle]
    /\ linmap' = storage
    /\ UNCHANGED <<storage, readers, lastw, nops>>

\* ------------------------------------------------------------- get
get(t, c, key) == Created(t, NewFut("get", c, <<key>>, << >>))

get_lock(t) == fut[t].op = "get" /\ read(t)

get_body(t) ==
    /\ fut[t].op = "get"
    /\ fut[t].pc = "locked"
    /\ fut' = [fut EXCEPT ![t] = Resolve(@, Ok(MapGet(storage, fut[t].keys[1])))]
    /\ readers' = readers \ {t}
    /\ UNCHANGED <<storage, writers, poisoned, lastw, nops, linmap>>

\* ------------------------------------------------------------- get_batch
get_batch(t, c, keys) == Created(t, NewFut("get_batch", c, keys, << >>))

get_batch_lock(t) == fut[t].op = "get_batch" /\ read(t)

\* Mutant of get_batch_iter: a missing key is skipped (filter_map for map).
get_batch_iter_filter(t) ==
    /\ fut[t].op = "get_batch"
    /\ fut[t].pc = "locked"
    /\ fut[t].i < Len(fut[t].keys)
    /\ fut' = [fut EXCEPT ![t].i = @ + 1,
                          ![t].out = IF MapContainsKey(storage, fut[t].keys[fut[t].i + 1])
                                     THEN Append(@, MapGet(storage, fut[t].keys[fut[t].i + 1]))
                                     ELSE @]
    /\ UNCHANGED <<storage, readers, writers, poisoned, lastw, nops, linmap>>

\* One element of keys.into_iter().map(..).
get_batch_iter(t) ==
    /\ fut[t].op = "get_batch"
    /\ fut[t].pc = "locked"
    /\ fut[t].i < Len(fut[t].keys)
    /\ fut' = [fut EXCEPT ![t].i = @ + 1,
                          ![t].out = Append(@, MapGet(storage, fut[t].keys[fut[t].i + 1]))]
    /\ UNCHANGED <<storage, readers, writers, poisoned, lastw, nops, linmap>>

get_batch_done(t) ==
    /\ fut[t].op = "get_batch"
    /\ fut[t].pc = "locked"
    /\ fut[t].i = Len(fut[t].keys)
    /\ fut' = [fut EXCEPT ![t] = Resolve(@, Ok(fut[t].out))]
    /\ readers' = readers \ {t}
    /\ UNCHANGED <<storage, writers, poisoned, lastw, nops, linmap>>

\* ------------------------------------------------------------- insert
\* Mutant of insert: the write is done by the call itself, under no guard, and
\* the future it returns is already resolved.
insert_eager(t, c, key, value) ==
    /\ fut[t].pc = "idle"
    /\ fut' = [fut EXCEPT ![t] =
                 [Resolve(NewFut("insert", c, <<key>>, <<value>>), Ok(Unit))
                     EXCEPT !.alone = NoOther(t)]]
    /\ storage' = MapInsert(storage, gen_key(c, key), value)
    /\ lastw' = [lastw EXCEPT ![gen_key(c, key)] = Written(value)]
    /\ linmap' = MapInsert(linmap, gen_key(c, key), value)
    /\ nops' = nops + 1
    /\ UNCHANGED <<readers, writers, poisoned>>

insert(t, c, key, value) == Created(t, NewFut("insert", c, <<key>>, <<value>>))

\* Mutant of insert_lock: insert asks for the shared guard (storage.read()).
insert_lock_shared(t) == fut[t].op = "insert" /\ read(t)

insert_lock(t) == fut[t].op = "insert" /\ write(t)

insert_body(t) ==
    /\ fut[t].op = "insert"
    /\ fut[t].pc = "locked"
    /\ storage' = MapInsert(storage, fut[t].keys[1], fut[t].values[1])
    /\ lastw' = [lastw EXCEPT ![gen_key(fut[t].c, fut[t].raw[1])] = Written(fut[t].values[1])]
    /\ fut' = [fut EXCEPT ![t] = Resolve(@, Ok(Unit))]
    /\ writers' = writers \ {t}
    /\ UNCHANGED <<readers, poisoned, nops, linmap>>

\* ------------------------------------------------------------- insert_batch
insert_batch(t, c, keys, values) == Created(t, NewFut("insert_batch", c, keys, values))

\* keys.len() != values.len(): the future resolves before it asks for the lock.
\* Mutant of insert_batch_check: the lengths are compared after storage.write(),
\* under the guard.
insert_batch_check_locked(t) ==
    /\ fut[t].op = "insert_batch"
    /\ fut[t].pc = "created"
    /\ Len(fut[t].keys) # Len(fut[t].values)
    /\ readers = {}
    /\ writers = {}
    /\ fut' = [fut EXCEPT ![t] =
                 [Resolve(@, IF poisoned THEN Err(map_rwlock_err) ELSE Err(InvalidData))
                     EXCEPT !.seen = LockState]]
    /\ UNCHANGED <<storage, readers, writers, poisoned, lastw, nops, linmap>>

insert_batch_check(t) ==
    /\ fut[t].op = "insert_batch"
    /\ fut[t].pc = "created"
    /\ Len(fut[t].keys) # Len(fut[t].values)
    /\ fut' = [fut EXCEPT ![t] = [Resolve(@, Err(InvalidData)) EXCEPT !.seen = LockState]]
    /\ UNCHANGED <<storage, readers, writers, poisoned, lastw, nops, linmap>>

\* Mutant of insert_batch_lock: the lock is taken whatever the lengths.
insert_batch_lock_unchecked(t) == fut[t].op = "insert_batch" /\ write(t)

insert_batch_lock(t) ==
    /\ fut[t].op = "insert_batch"
    /\ Len(fut[t].keys) = Len(fut[t].values)
    /\ write(t)

\* Mutant of insert_batch_iter: the pairs are applied from the last to the first.
insert_batch_iter_rev(t) ==
    /\ fut[t].op = "insert_batch"
    /\ fut[t].pc = "locked"
    /\ fut[t].i < Len(fut[t].keys)
    /\ storage' = MapInsert(storage, fut[t].keys[Len(fut[t].keys) - fut[t].i],
                                     fut[t].values[Len(fut[t].keys) - fut[t].i])
    /\ lastw' = [lastw EXCEPT ![gen_key(fut[t].c, fut[t].raw[Len(fut[t].keys) - fut[t].i])] =
                                  Written(fut[t].values[Len(fut[t].keys) - fut[t].i])]
    /\ fut' = [fut EXCEPT ![t].i = @ + 1]
    /\ UNCHANGED <<readers, writers, poisoned, nops, linmap>>

\* Mutant of insert_batch_iter: the guard is taken and dropped inside the loop,
\* around each storage.insert, not around the whole loop.
insert_batch_iter_unlock(t) ==
    /\ fut[t].op = "insert_batch"
    /\ fut[t].pc = "locked"
    /\ fut[t].i < Len(fut[t].keys)
    /\ readers = {}
    /\ writers \subseteq {t}
    /\ storage' = MapInsert(storage, fut[t].keys[fut[t].i + 1], fut[t].values[fut[t].i + 1])
    /\ lastw' = [lastw EXCEPT ![gen_key(fut[t].c, fut[t].raw[fut[t].i + 1])] =
                                  Written(fut[t].values[fut[t].i + 1])]
    /\ fut' = [fut EXCEPT ![t].i = @ + 1]
    /\ writers' = writers \ {t}
    /\ UNCHANGED <<readers, poisoned, nops, linmap>>

\* One turn of for i in 0..keys.len().
insert_batch_iter(t) ==
    /\ fut[t].op = "insert_batch"
    /\ fut[t].pc = "locked"
    /\ fut[t].i < Len(fut[t].keys)
    /\ storage' = MapInsert(storage, fut[t].keys[fut[t].i + 1], fut[t].values[fut[t].i + 1])
    /\ lastw' = [lastw EXCEPT ![gen_key(fut[t].c, fut[t].raw[fut[t].i + 1])] =
                                  Written(fut[t].values[fut[t].i + 1])]
    /\ fut' = [fut EXCEPT ![t].i = @ + 1]
    /\ UNCHANGED <<readers, writers, poisoned, nops, linmap>>

\* Mutant of insert_batch_done: the guard outlives the future
\* (std::mem::forget(storage) before Ok(())).
insert_batch_done_keep(t) ==
    /\ fut[t].op = "insert_batch"
    /\ fut[t].pc = "locked"
    /\ fut[t].i = Len(fut[t].keys)
    /\ fut' = [fut EXCEPT ![t] = Resolve(@, Ok(Unit))]
    /\ UNCHANGED <<storage, readers, writers, poisoned, lastw, nops, linmap>>

insert_batch_done(t) ==
    /\ fut[t].op = "insert_batch"
    /\ fut[t].pc = "locked"
    /\ fut[t].i = Len(fut[t].keys)
    /\ fut' = [fut EXCEPT ![t] = Resolve(@, Ok(Unit))]
    /\ writers' = writers \ {t}
    /\ UNCHANGED <<storage, readers, poisoned, lastw, nops, linmap>>

\* ------------------------------------------------------------- contains
\* Mutant of contains: the raw key is looked up, not the composite key.
contains_raw(t, c, key) ==
    Created(t, [NewFut("contains", c, <<key>>, << >>) EXCEPT !.keys = <<key>>])

contains(t, c, key) == Created(t, NewFut("contains", c, <<key>>, << >>))

contains_lock(t) == fut[t].op = "contains" /\ read(t)

contains_body(t) ==
    /\ fut[t].op = "contains"
    /\ fut[t].pc = "locked"
    /\ fut' = [fut EXCEPT ![t] = Resolve(@, Ok(MapContainsKey(storage, fut[t].keys[1])))]
    /\ readers' = readers \ {t}
    /\ UNCHANGED <<storage, writers, poisoned, lastw, nops, linmap>>

\* ------------------------------------------------------------- remove
\* Mutant of remove: the raw key is removed, not the composite key.
remove_raw(t, c, key) ==
    Created(t, [NewFut("remove", c, <<key>>, << >>) EXCEPT !.keys = <<key>>])

remove(t, c, key) == Created(t, NewFut("remove", c, <<key>>, << >>))

\* Mutant of remove_lock: remove asks for the shared guard (storage.read()).
remove_lock_shared(t) == fut[t].op = "remove" /\ read(t)

remove_lock(t) == fut[t].op = "remove" /\ write(t)

remove_body(t) ==
    /\ fut[t].op = "remove"
    /\ fut[t].pc = "locked"
    /\ storage' = MapRemove(storage, fut[t].keys[1])
    /\ lastw' = [lastw EXCEPT ![gen_key(fut[t].c, fut[t].raw[1])] = AfterRemove(@)]
    /\ fut' = [fut EXCEPT ![t] = Resolve(@, Ok(Unit))]
    /\ writers' = writers \ {t}
    /\ UNCHANGED <<readers, poisoned, nops, linmap>>

\* ------------------------------------------------------------- remove_batch
remove_batch(t, c, keys) == Created(t, NewFut("remove_batch", c, keys, << >>))

remove_batch_lock(t) == fut[t].op = "remove_batch" /\ write(t)

\* Mutant of remove_batch_iter: the loop ends at the first absent key.
remove_batch_iter_stop(t) ==
    /\ fut[t].op = "remove_batch"
    /\ fut[t].pc = "locked"
    /\ fut[t].i < Len(fut[t].keys)
    /\ storage' = MapRemove(storage, fut[t].keys[fut[t].i + 1])
    /\ lastw' = [lastw EXCEPT ![gen_key(fut[t].c, fut[t].raw[fut[t].i + 1])] = AfterRemove(@)]
    /\ fut' = [fut EXCEPT ![t].i = IF MapContainsKey(storage, fut[t].keys[fut[t].i + 1])
                                   THEN @ + 1 ELSE Len(fut[t].keys)]
    /\ UNCHANGED <<readers, writers, poisoned, nops, linmap>>

\* One turn of for key in keys.
remove_batch_iter(t) ==
    /\ fut[t].op = "remove_batch"
    /\ fut[t].pc = "locked"
    /\ fut[t].i < Len(fut[t].keys)
    /\ storage' = MapRemove(storage, fut[t].keys[fut[t].i + 1])
    /\ lastw' = [lastw EXCEPT ![gen_key(fut[t].c, fut[t].raw[fut[t].i + 1])] = AfterRemove(@)]
    /\ fut' = [fut EXCEPT ![t].i = @ + 1]
    /\ UNCHANGED <<readers, writers, poisoned, nops, linmap>>

remove_batch_done(t) ==
    /\ fut[t].op = "remove_batch"
    /\ fut[t].pc = "locked"
    /\ fut[t].i = Len(fut[t].keys)
    /\ fut' = [fut EXCEPT ![t] = Resolve(@, Ok(Unit))]
    /\ writers' = writers \ {t}
    /\ UNCHANGED <<storage, readers, poisoned, lastw, nops, linmap>>

\* ------------------------------------------------------------- specifications
\* MemoryDB::new() / Default::default(): an empty map in a fresh lock.
Init ==
    /\ storage = EmptyMap
    /\ readers = {}
    /\ writers = {}
    /\ poisoned = FALSE
    /\ fut = [t \in Tasks |-> Idle]
    /\ lastw = [k \in AllCKeys |-> Never]
    /\ nops = 0
    /\ linmap = EmptyMap

\* A caller calls one of the seven operations, with a category of C, keys of K,
\* values of V, key lists of KL and value lists of VL.
Call(t, C, K, V, KL, VL) ==
    \/ \E c \in C, key \in K : get(t, c, key)
    \/ \E c \in C, keys \in KL : get_batch(t, c, keys)
    \/ \E c \in C, key \in K, value \in V : insert(t, c, key, value)
    \/ \E c \in C, keys \in KL, values \in VL : insert_batch(t, c, keys, values)
    \/ \E c \in C, key \in K : contains(t, c, key)
    \/ \E c \in C, key \in K : remove(t, c, key)
    \/ \E c \in C, keys \in KL : remove_batch(t, c, keys)

\* The executor drives a future one step.
Poll(t) ==
    \/ get_lock(t) \/ get_body(t)
    \/ get_batch_lock(t) \/ get_batch_iter(t) \/ get_batch_done(t)
    \/ insert_lock(t) \/ insert_body(t)
    \/ insert_batch_check(t) \/ insert_batch_lock(t) \/ insert_batch_iter(t)
    \/ insert_batch_done(t)
    \/ contains_lock(t) \/ contains_body(t)
    \/ remove_lock(t) \/ remove_body(t)
    \/ remove_batch_lock(t) \/ remove_batch_iter(t) \/ remove_batch_done(t)
    \/ wait(t)

\* One caller that waits for each future before it calls again (as the tests do).
Next ==
    \/ /\ nops < MaxOps
       /\ Call(1, Cats, RawKeys, Values, SeqUpTo(RawKeys, MaxBatch), SeqUpTo(Values, MaxBatch))
    \/ Poll(1)

Spec == Init /\ [][Next]_vars

\* Several callers whose futures are driven concurrently.
NextConc ==
    \E t \in Tasks :
        \/ /\ nops < MaxConcOps
           /\ Call(t, ConcCats, ConcKeys, Values, ConcKeyLists, ConcValueLists)
        \/ Poll(t)

SpecConc == Init /\ [][NextConc]_vars

\* The key encoder alone: each caller calls get once, with any category and a
\* raw key of KeyInputs, and the call encodes the key.
NextKey == \E t \in Tasks, c \in DataCategory, key \in KeyInputs : get(t, c, key)

SpecKey == Init /\ [][NextKey]_vars

\* A future asks for the lock and the lock answers.
Acquire(t) ==
    \/ get_lock(t) \/ get_batch_lock(t) \/ contains_lock(t)
    \/ insert_lock(t) \/ insert_batch_lock(t) \/ remove_lock(t) \/ remove_batch_lock(t)

\* Several callers under a fair executor and a fair lock: a future that can
\* take a step is driven in the end, and a future that can again and again be
\* granted the lock is granted it in the end.
SpecFair ==
    /\ SpecConc
    /\ \A t \in Tasks : WF_vars(Poll(t)) /\ SF_vars(Acquire(t))

\* Several callers, any of which may terminate abnormally while it holds the
\* write guard.
NextPoison ==
    \/ NextConc
    \/ \E t \in Tasks : map_err(t)
    \/ \E t \in Tasks : panic(t)

SpecPoison == Init /\ [][NextPoison]_vars

\* The same under a fair executor and a fair lock; a panic is never forced.
SpecPoisonFair ==
    /\ SpecPoison
    /\ \A t \in Tasks : WF_vars(Poll(t)) /\ WF_vars(map_err(t)) /\ SF_vars(Acquire(t))

\* ------------------------------------------------------------- properties
\* The composite key of the j-th raw key of slot t's call, encoded afresh
\* from the call's arguments.
CKey(t, j) == gen_key(fut[t].c, fut[t].raw[j])

CKeys(t) == {CKey(t, j) : j \in 1 .. Len(fut[t].raw)}

\* The step in which slot t's future of operation op leaves its critical
\* section and resolves.
Resolves(t, op) == fut[t].op = op /\ fut[t].pc = "locked" /\ fut'[t].pc = "done"

\* Slot t's future of operation op has resolved with r.
Resolved(t, op, r) == fut[t].op = op /\ fut[t].pc = "done" /\ fut[t].res = r

\* What get(c, key) returns on map m.
GetOn(m, c, key) == MapGet(m, gen_key(c, key))

\* C1: a get(c,k) that runs when the last write to the composite key of (c,k)
\* stored v (an insert, also one that overwrote an earlier record) returns
\* exactly Ok(Some(v)).
C1_InsertThenGet ==
    [][\A t \in Tasks :
          Resolves(t, "get") /\ lastw[CKey(t, 1)][1] = "written"
              => fut'[t].res = Ok(Some(lastw[CKey(t, 1)][2]))]_vars

\* A get has returned Some(b) for a key that an insert wrote last, as the third
\* operation of the run.
C1_Witness ==
    /\ Resolved(1, "get", Ok(Some(ValB)))
    /\ lastw[CKey(1, 1)] = Written(ValB)
    /\ nops = 3

\* Slot t's call is an insert_batch whose key list and value list differ in length.
Mismatched(t) == fut[t].op = "insert_batch" /\ Len(fut[t].raw) # Len(fut[t].values)

\* C2: an insert_batch with len(keys) # len(values) resolves with InvalidData
\* in the one step it takes, never enters the critical section, and that
\* step leaves the whole map as it was.
C2_MismatchRejected ==
    [][\A t \in Tasks :
          Mismatched(t) /\ fut[t].pc # "done" /\ fut'[t] # fut[t]
              => /\ fut'[t].pc = "done"
                 /\ fut'[t].res = Err(InvalidData)
                 /\ storage' = storage]_vars

\* A two-key, one-value insert_batch has resolved with InvalidData on a store
\* that holds a record under the batch's first key, and the record is not the
\* batch's first value.
C2_Witness ==
    /\ Resolved(1, "insert_batch", Err(InvalidData))
    /\ fut[1].raw = <<KeyX, KeyPoolX>>
    /\ fut[1].values = <<ValB>>
    /\ MapGet(storage, CKey(1, 1)) = Some(ValA)

\* The last position of composite key ck in slot t's key list.
LastOf(t, ck) ==
    CHOOSE j \in 1 .. Len(fut[t].raw) :
        /\ CKey(t, j) = ck
        /\ \A m \in (j + 1) .. Len(fut[t].raw) : CKey(t, m) # ck

\* Every composite key outside the set S has the same record, or none, in m2 as in m1.
SameOutside(m1, m2, S) ==
    \A ck \in ((DOMAIN m1) \cup (DOMAIN m2)) \ S : MapGet(m2, ck) = MapGet(m1, ck)

\* C3: an insert_batch with len(keys) = len(values) resolves with Ok; when it
\* does, every key of the list holds the value of the last position at which
\* it occurs; no step of its critical section changes a composite key that is
\* not in the batch.
C3_InsertBatchInOrder ==
    [][\A t \in Tasks :
          fut[t].op = "insert_batch" /\ ~Mismatched(t) /\ fut[t].pc # "done"
              => /\ fut[t].pc = "locked" => SameOutside(storage, storage', CKeys(t))
                 /\ fut'[t].pc = "done"
                      => /\ fut'[t].res = Ok(Unit)
                         /\ \A ck \in CKeys(t) :
                               MapGet(storage', ck) = Some(fut[t].values[LastOf(t, ck)])]_vars

\* insert_batch(c, [x, x], [a, b]) has resolved on a store that held a record
\* under another composite key: x holds b and the other record is still there.
C3_Witness ==
    /\ Resolved(1, "insert_batch", Ok(Unit))
    /\ fut[1].raw = <<KeyX, KeyX>>
    /\ fut[1].values = <<ValA, ValB>>
    /\ MapGet(storage, CKey(1, 1)) = Some(ValB)
    /\ Cardinality(DOMAIN storage) = 2

\* C4: when remove(c,k) resolves it resolves with Ok, the composite key of
\* (c,k) is absent (get would return None and contains false), and if the key
\* was absent before, the whole map is unchanged; a get or contains that runs
\* when the last write to its composite key was a remove returns None / false.
C4_RemoveThenAbsent ==
    [][\A t \in Tasks :
          /\ Resolves(t, "remove")
                => /\ fut'[t].res = Ok(Unit)
                   /\ GetOn(storage', fut[t].c, fut[t].raw[1]) = None
                   /\ ~MapContainsKey(storage', CKey(t, 1))
                   /\ ~MapContainsKey(storage, CKey(t, 1)) => storage' = storage
          /\ Resolves(t, "get") /\ lastw[CKey(t, 1)] = Removed
                => fut'[t].res = Ok(None)
          /\ Resolves(t, "contains") /\ lastw[CKey(t, 1)] = Removed
                => fut'[t].res = Ok(FALSE)]_vars

\* A contains has returned false for a key whose record a remove deleted.
C4_Witness ==
    /\ Resolved(1, "contains", Ok(FALSE))
    /\ lastw[CKey(1, 1)] = Removed

\* C5: remove_batch resolves with Ok whatever the keys; when it does, every
\* key of the list is absent; no step of its critical section changes a
\* composite key that is not the encoding of a listed key.
C5_RemoveBatch ==
    [][\A t \in Tasks :
          fut[t].op = "remove_batch" /\ fut[t].pc # "done"
              => /\ fut[t].pc = "locked" => SameOutside(storage, storage', CKeys(t))
                 /\ fut'[t].pc = "done"
                      => /\ fut'[t].res = Ok(Unit)
                         /\ \A ck \in CKeys(t) : ~MapContainsKey(storage', ck)]_vars

\* remove_batch(c, [k1, k2]) has resolved where k1 was never written and k2 held
\* a record, on a store that keeps a record under another composite key.
C5_Witness ==
    /\ Resolved(1, "remove_batch", Ok(Unit))
    /\ Len(fut[1].raw) = 2
    /\ lastw[CKey(1, 1)] = Never
    /\ lastw[CKey(1, 2)] = Removed
    /\ storage # EmptyMap

\* C6: get_batch(c, keys) resolves with a sequence as long as keys whose i-th
\* element is what get(c, keys[i]) returns on the same map.
C6_GetBatchPointwise ==
    [][\A t \in Tasks :
          Resolves(t, "get_batch")
              => fut'[t].res =
                    Ok([j \in 1 .. Len(fut[t].raw) |-> GetOn(storage, fut[t].c, fut[t].raw[j])])]_vars

\* get_batch(c, [k1, k2]) where only k1 exists has returned [Some(a), None].
C6_Witness ==
    /\ Resolved(1, "get_batch", Ok(<<Some(ValA), None>>))
    /\ fut[1].raw[1] # fut[1].raw[2]

\* C7: contains(c,k) returns true exactly when get(c,k) on the same map returns
\* Some(_), that is, when a record is stored under the composite key of (c,k).
C7_ContainsIffGet ==
    [][\A t \in Tasks :
          Resolves(t, "contains")
              => /\ fut'[t].res = Ok(GetOn(storage, fut[t].c, fut[t].raw[1]) # None)
                 /\ fut'[t].res = Ok(CKey(t, 1) \in DOMAIN storage)]_vars

\* A contains has returned true.
C7_Witness ==
    /\ Resolved(1, "contains", Ok(TRUE))
    /\ GetOn(storage, fut[1].c, fut[1].raw[1]) = Some(ValA)

\* C8: a get or contains whose composite key has never been written, or whose
\* last write was a remove, returns Ok(None) / Ok(false); on a new store this is
\* every key.
C8_UnwrittenIsEmpty ==
    [][\A t \in Tasks :
          /\ Resolves(t, "get") /\ lastw[CKey(t, 1)] \in {Never, Removed}
                => fut'[t].res = Ok(None)
          /\ Resolves(t, "contains") /\ lastw[CKey(t, 1)] \in {Never, Removed}
                => fut'[t].res = Ok(FALSE)]_vars

\* A get, the first operation on a new store, has returned None.
C8_Witness ==
    /\ Resolved(1, "get", Ok(None))
    /\ nops = 1
    /\ \A ck \in AllCKeys : lastw[ck] = Never

\* p is a prefix of s.
IsPrefix(p, s) == Len(p) <= Len(s) /\ SubSeq(s, 1, Len(p)) = p

\* Neither category's prefix is a prefix of the other's.
NonOverlapping(c1, c2) ==
    /\ ~IsPrefix(prefix(c1), prefix(c2))
    /\ ~IsPrefix(prefix(c2), prefix(c1))

\* C9: no step of a write on category c1 changes what get or contains returns
\* for the same raw key under a category c2 whose prefix does not overlap c1's.
C9_CategoriesIndependent ==
    [][\A t \in Tasks :
          fut[t].op \in WriteOps /\ fut[t].pc = "locked"
              => \A c2 \in DataCategory \ {fut[t].c} :
                    NonOverlapping(fut[t].c, c2)
                        => \A j \in 1 .. Len(fut[t].raw) :
                              /\ GetOn(storage', c2, fut[t].raw[j]) = GetOn(storage, c2, fut[t].raw[j])
                              /\ MapContainsKey(storage', gen_key(c2, fut[t].raw[j]))
                                    = MapContainsKey(storage, gen_key(c2, fut[t].raw[j]))]_vars

\* After insert(Block, x, a) and insert(Transaction, x, b), get(Block, x) has
\* returned Some(a) and Transaction's x holds b.
C9_Witness ==
    /\ Resolved(1, "get", Ok(Some(ValA)))
    /\ fut[1].c = "Block"
    /\ fut[1].raw = <<KeyX>>
    /\ GetOn(storage, "Transaction", KeyX) = Some(ValB)

\* Slot t's future is inside its critical section.
InCS(t) == fut[t].pc = "locked"

\* C10: a future is inside its critical section exactly when it holds the guard
\* of its kind, and while a writer is inside, no other future, writer or reader,
\* is inside.
C10_MutualExclusion ==
    \A t \in Tasks :
        /\ t \in writers <=> InCS(t) /\ fut[t].op \in WriteOps
        /\ t \in readers <=> InCS(t) /\ fut[t].op \in ReadOps
        /\ InCS(t) /\ fut[t].op \in WriteOps => \A u \in Tasks \ {t} : ~InCS(u)

\* A writer is inside its critical section while a reader's future waits for
\* the lock.
C10_Witness ==
    \E t, u \in Tasks :
        /\ InCS(t) /\ fut[t].op \in WriteOps
        /\ fut[u].pc = "created" /\ fut[u].op \in ReadOps

\* Two readers are inside their critical sections at the same time.
C10_ReadersTogether ==
    \E t, u \in Tasks :
        /\ t # u
        /\ InCS(t) /\ fut[t].op \in ReadOps
        /\ InCS(u) /\ fut[u].op \in ReadOps

\* No writer is inside its critical section.
Quiet == \A t \in Tasks : ~(InCS(t) /\ fut[t].op \in WriteOps)

\* C11: the operations behave as if run one at a time in the order in which
\* they were granted the lock: whenever no writer is inside its critical
\* section the map is the one that sequential run produces, and every future
\* that was granted the lock resolves with what its operation returns at its
\* place in that run.
C11_Linearizable ==
    /\ Quiet => storage = linmap
    /\ \A t \in Tasks :
          fut[t].pc = "done" /\ fut[t].exp # Pending => fut[t].res = fut[t].exp

\* Two inserts of different values under the same key, the only two operations
\* of the run, have both resolved while both futures were alive, and the key
\* holds the value of one of them.
C11_Witness ==
    \E t, u \in Tasks :
        /\ t # u
        /\ Resolved(t, "insert", Ok(Unit))
        /\ Resolved(u, "insert", Ok(Unit))
        /\ CKey(t, 1) = CKey(u, 1)
        /\ fut[t].values # fut[u].values
        /\ MapGet(storage, CKey(t, 1)) = Some(fut[t].values[1])
        /\ nops = 2

\* Slot t's future is a batch write whose loop is under way.
InBatch(t) == fut[t].op \in {"insert_batch", "remove_batch"} /\ InCS(t)

\* The results a get_batch may return when all that ever ran beside it is the
\* insert_batch of slot u: nothing of the batch, or all of it.
NoneOrAll(u) ==
    {Ok([j \in 1 .. Len(fut[u].raw) |-> None]),
     Ok([j \in 1 .. Len(fut[u].raw) |-> Some(fut[u].values[j])])}

\* C12: a batch write is never seen half applied. No step that a reader takes
\* inside its critical section happens while a batch write's loop is under
\* way, and the map does not change while a reader is inside, so a get_batch
\* reads all its keys from one state of the map; a get_batch of k1..kn that
\* runs beside an insert_batch of the same, so far absent, keys returns all
\* None or all the batch's values.
C12_BatchAtomic ==
    [][\A t \in Tasks :
          /\ InCS(t) /\ fut[t].op \in ReadOps
                => /\ storage' = storage
                   /\ \A u \in Tasks : ~InBatch(u)
          /\ Resolves(t, "get_batch")
                => \A u \in Tasks :
                      /\ fut[u].op = "insert_batch" /\ ~Mismatched(u)
                      /\ fut[u].c = fut[t].c /\ fut[u].raw = fut[t].raw
                      /\ nops = 2
                      => fut'[t].res \in NoneOrAll(u)]_vars

\* A get_batch that was called before the insert_batch of the same two keys,
\* the only other operation of the run, has returned both values of the batch.
C12_Witness ==
    \E t, u \in Tasks :
        /\ Resolved(t, "get_batch", Ok(<<Some(ValA), Some(ValB)>>))
        /\ Resolved(u, "insert_batch", Ok(Unit))
        /\ fut[u].raw = fut[t].raw
        /\ t # u
        /\ fut[t].alone
        /\ nops = 2

\* A get_batch has read its first key, and an insert_batch of the same keys
\* waits for the lock.
C12_ReaderHoldsOff ==
    \E t, u \in Tasks :
        /\ InCS(t) /\ fut[t].op = "get_batch" /\ fut[t].i = 1
        /\ fut[u].op = "insert_batch" /\ ~Mismatched(u) /\ fut[u].pc = "created"

\* Slot t's future holds the guard that came with the PoisonError.
Failing(t) == fut[t].pc = "failing"

\* C13: once the lock is poisoned it stays poisoned, and from then on no step
\* changes the map and no future enters a critical section. A future that has
\* to ask for the lock (get, get_batch, contains, insert, remove, remove_batch,
\* an insert_batch whose lengths match) gets the guard only inside the
\* PoisonError, holds it for the one step in which the error is built, and
\* resolves with Internal("rwlock error"). It is kept waiting only while
\* another failing future holds such a guard, and that one can always take
\* its step: nothing blocks for good.
C13_PoisonedForGood ==
    [][poisoned
          => /\ poisoned'
             /\ storage' = storage
             /\ \A t \in Tasks :
                   /\ ~InCS(t) /\ ~InCS(t)'
                   /\ t \in (readers \cup writers) <=> Failing(t)
                   /\ Failing(t) => ENABLED map_err(t)
                   /\ Failing(t) /\ fut'[t] # fut[t]
                         => /\ fut'[t].pc = "done"
                            /\ fut'[t].res = Err(map_rwlock_err)
                            /\ t \notin (readers' \cup writers')
                   /\ fut[t].pc = "created" /\ ~Mismatched(t)
                         => /\ ENABLED Acquire(t) \/ \E u \in Tasks \ {t} : Failing(u)
                            /\ fut'[t] # fut[t] => Failing(t)']_vars

\* Under a fair executor and a fair lock, every future that has to ask for a
\* poisoned lock resolves with an error.
C13_Completes ==
    \A t \in Tasks :
        (poisoned /\ fut[t].pc \in {"created", "failing"} /\ ~Mismatched(t))
            ~> (fut[t].pc = "done" /\ fut[t].res = Err(map_rwlock_err))

\* On a poisoned lock a failing insert holds the write guard of the
\* PoisonError, and a get of another caller cannot be granted the lock.
C13_HeldOff ==
    \E t, u \in Tasks :
        /\ poisoned
        /\ Failing(t) /\ fut[t].op = "insert" /\ t \in writers
        /\ fut[u].op = "get" /\ fut[u].pc = "created"
        /\ ~ENABLED Poll(u)

\* On a poisoned lock two failing readers hold the read guards of their
\* PoisonErrors at the same time.
C13_FailingTogether ==
    \E t, u \in Tasks :
        /\ t # u
        /\ poisoned
        /\ Failing(t) /\ t \in readers
        /\ Failing(u) /\ u \in readers

\* On a poisoned lock an insert and a get_batch have both resolved with
\* Internal, and the map still holds what was stored before.
C13_Witness ==
    \E t, u \in Tasks :
        /\ poisoned
        /\ Resolved(t, "insert", Err(map_rwlock_err))
        /\ Resolved(u, "get_batch", Err(map_rwlock_err))
        /\ storage # EmptyMap

\* C14: an insert_batch whose lengths differ never asks for the lock: whatever
\* the state of the lock (held by a writer, held by readers, poisoned), its
\* step is enabled, resolves it with InvalidData, and leaves the lock and the
\* map as they were.
C14_CheckBeforeLock ==
    [][\A t \in Tasks :
          Mismatched(t) /\ fut[t].pc = "created"
              => /\ ENABLED insert_batch_check(t)
                 /\ fut'[t] # fut[t]
                       => /\ fut'[t].pc = "done"
                          /\ fut'[t].res = Err(InvalidData)
                          /\ UNCHANGED <<storage, readers, writers, poisoned>>]_vars

\* A mismatched insert_batch has resolved with InvalidData at a moment when
\* another future held the write guard.
C14_Witness ==
    \E t \in Tasks :
        /\ Resolved(t, "insert_batch", Err(InvalidData))
        /\ fut[t].seen = "write-held"

\* A mismatched insert_batch has resolved with InvalidData on a poisoned lock.
C14_OnPoisoned ==
    \E t \in Tasks :
        /\ Resolved(t, "insert_batch", Err(InvalidData))
        /\ fut[t].seen = "poisoned"

\* Slot t's future has been called and has not resolved.
Unresolved(t) == fut[t].pc \in {"created", "locked", "failing"}

\* Slot t's future holds a guard: inside its critical section, or with the
\* guard of a PoisonError.
Holding(t) == fut[t].pc \in {"locked", "failing"}

\* C15: a future holds a guard only between the one answer of the lock it
\* asks for, which it gets in the state in which it was created, and its
\* result, Ok or Internal; it resolves with the guard dropped, and while it
\* holds the guard it can always take its next step. While any future is
\* unresolved some future can step (no deadlock). Under a fair executor and a
\* fair lock every future resolves, unless it is the one that terminates
\* abnormally: nothing else ends a future before its result.
C15_Terminates ==
    /\ [](\A t \in Tasks :
            /\ t \in (readers \cup writers) <=> Holding(t)
            /\ Holding(t) => ENABLED (Poll(t) \/ map_err(t)))
    /\ []((\E t \in Tasks : Unresolved(t))
            => \E u \in Tasks : ENABLED (Poll(u) \/ map_err(u)))
    /\ [][\A t \in Tasks :
            /\ ~Holding(t) /\ Holding(t)' => fut[t].pc = "created"
            /\ Holding(t) /\ ~Holding(t)'
                  => \/ fut'[t].pc = "done" /\ fut'[t].res # Pending
                     \/ fut'[t] = Idle /\ InCS(t) /\ t \in writers /\ poisoned'
            /\ fut[t].pc = "created" /\ fut'[t] # fut[t] => fut'[t].pc # "idle"
            /\ fut[t].pc = "done" /\ fut'[t] # fut[t] => fut'[t] = Idle]_vars
    /\ \A t \in Tasks : Unresolved(t) ~> fut[t].pc \in {"done", "idle"}

\* A remove that asked for the poisoned lock has resolved with Internal and
\* holds no guard.
C15_ErrorExit ==
    \E t \in Tasks :
        /\ Resolved(t, "remove", Err(map_rwlock_err))
        /\ t \notin (readers \cup writers)

\* An insert_batch and a remove_batch of two callers, the only operations of
\* the run, have both resolved.
C15_Witness ==
    \E t, u \in Tasks :
        /\ Resolved(t, "insert_batch", Ok(Unit))
        /\ Resolved(u, "remove_batch", Ok(Unit))
        /\ nops = 2

\* C16: Transaction's prefix is a prefix of TransactionPool's, so the raw key
\* "pool-" ++ r under Transaction and the raw key r under TransactionPool are
\* one composite key: an insert(Transaction, "pool-" ++ r, v) leaves
\* get(TransactionPool, r) = Some(v) and contains(TransactionPool, r) true;
\* get and contains under TransactionPool return what they would for
\* (Transaction, "pool-" ++ r); remove(TransactionPool, r) deletes the record of
\* (Transaction, "pool-" ++ r).
C16_PoolCollides ==
    [][\A t \in Tasks :
          /\ \A r \in RawKeys :
                gen_key("Transaction", PoolDash \o r) = gen_key("TransactionPool", r)
          /\ Resolves(t, "insert") /\ fut[t].c = "Transaction"
                                  /\ IsPrefix(PoolDash, fut[t].raw[1])
                => LET r == SubSeq(fut[t].raw[1], Len(PoolDash) + 1, Len(fut[t].raw[1]))
                   IN  /\ GetOn(storage', "TransactionPool", r) = Some(fut[t].values[1])
                       /\ MapContainsKey(storage', gen_key("TransactionPool", r))
          /\ Resolves(t, "get") /\ fut[t].c = "TransactionPool"
                => fut'[t].res = Ok(GetOn(storage, "Transaction", PoolDash \o fut[t].raw[1]))
          /\ Resolves(t, "contains") /\ fut[t].c = "TransactionPool"
                => fut'[t].res =
                      Ok(MapContainsKey(storage, gen_key("Transaction", PoolDash \o fut[t].raw[1])))
          /\ Resolves(t, "remove") /\ fut[t].c = "TransactionPool"
                => GetOn(storage', "Transaction", PoolDash \o fut[t].raw[1]) = None]_vars

\* insert(Transaction, "pool-x", a), the first operation on a new store, has
\* resolved, and the map answers a for (TransactionPool, "x").
C16_Witness ==
    /\ Resolved(1, "insert", Ok(Unit))
    /\ fut[1].c = "Transaction"
    /\ fut[1].raw = <<KeyPoolX>>
    /\ nops = 1
    /\ GetOn(storage, "TransactionPool", KeyX) = Some(ValA)

\* remove(TransactionPool, "x") has deleted the only record of the store, which
\* (Transaction, "pool-x") answers for.
C16_RemoveDeletes ==
    /\ Resolved(1, "remove", Ok(Unit))
    /\ fut[1].c = "TransactionPool"
    /\ fut[1].raw = <<KeyX>>
    /\ lastw[gen_key("Transaction", KeyPoolX)] = Removed
    /\ storage = EmptyMap

\* C17: a call only encodes the keys and returns the future: it leaves the map
\* and the lock alone. The map changes only in a step of a write's future
\* inside its critical section, so a write that was called and never driven
\* changes nothing. When an insert resolves, its key holds its value, also
\* when an insert of the same key that was called later has already resolved:
\* the write driven last wins, not the one called last.
C17_Lazy ==
    [][\A t \in Tasks :
          /\ fut[t].pc = "idle" /\ fut'[t] # fut[t]
                => /\ fut'[t].pc = "created"
                   /\ fut'[t].keys = gen_keys(fut'[t].c, fut'[t].raw)
                   /\ UNCHANGED <<storage, readers, writers, poisoned>>
          /\ fut[t].pc = "created" /\ fut'[t] = fut[t] /\ storage' # storage
                => \E u \in Tasks \ {t} :
                      InCS(u) /\ fut[u].op \in WriteOps /\ fut'[u] # fut[u]
          /\ Resolves(t, "insert")
                => \A u \in Tasks \ {t} :
                      /\ Resolved(u, "insert", Ok(Unit))
                      /\ CKey(u, 1) = CKey(t, 1)
                      /\ fut[t].alone
                      => MapGet(storage', CKey(t, 1)) = Some(fut[t].values[1])]_vars

\* Two inserts of different values under one key have resolved, and the key
\* holds the value of the one that was called first: it was driven last.
C17_Witness ==
    \E t, u \in Tasks :
        /\ Resolved(t, "insert", Ok(Unit))
        /\ Resolved(u, "insert", Ok(Unit))
        /\ CKey(t, 1) = CKey(u, 1)
        /\ fut[t].values # fut[u].values
        /\ t # u
        /\ fut[t].alone
        /\ MapGet(storage, CKey(t, 1)) = Some(fut[t].values[1])

\* An insert was called and never driven; two operations called after it have
\* run and the map is empty.
C17_NeverDriven ==
    \E t \in Tasks :
        /\ fut[t].op = "insert" /\ fut[t].pc = "created" /\ fut[t].alone
        /\ nops = 3
        /\ storage = EmptyMap

\* The raw key k1 under c1 and the raw key k2 under c2 fall under the prefix
\* overlap: c1 is Transaction and k1 is "pool-" ++ k2 with c2 TransactionPool,
\* or "position-" ++ k2 with c2 TransactionPosition.
Overlap(c1, k1, c2, k2) ==
    /\ c1 = "Transaction"
    /\ \/ c2 = "TransactionPool" /\ k1 = PoolDash \o k2
       \/ c2 = "TransactionPosition" /\ k1 = PositionDash \o k2

\* C18: two calls get the same composite key exactly when they have the same
\* category and raw key, or fall under the prefix overlap one way or the
\* other. So gen_key is injective within a category, categories other than
\* Transaction with TransactionPool or TransactionPosition never share a
\* composite key, and one raw key under two categories never collides.
C18_Collisions ==
    \A t, u \in Tasks :
        fut[t].pc = "created" /\ fut[u].pc = "created"
            => (fut[t].keys[1] = fut[u].keys[1]
                  <=> \/ fut[t].c = fut[u].c /\ fut[t].raw = fut[u].raw
                      \/ Overlap(fut[t].c, fut[t].raw[1], fut[u].c, fut[u].raw[1])
                      \/ Overlap(fut[u].c, fut[u].raw[1], fut[t].c, fut[t].raw[1]))

\* (Transaction, "position-x") and (TransactionPosition, "x") have been encoded
\* to one composite key.
C18_Witness ==
    \E t, u \in Tasks :
        /\ fut[t].pc = "created" /\ fut[t].c = "Transaction"
        /\ fut[t].raw = <<PositionDash \o KeyX>>
        /\ fut[u].pc = "created" /\ fut[u].c = "TransactionPosition"
        /\ fut[u].raw = <<KeyX>>
        /\ fut[t].keys = fut[u].keys

\* (TransactionPool, "position-x") and (TransactionPosition, "pool-x") have
\* been encoded, to different composite keys.
C18_PoolPositionApart ==
    \E t, u \in Tasks :
        /\ fut[t].pc = "created" /\ fut[t].c = "TransactionPool"
        /\ fut[t].raw = <<PositionDash \o KeyX>>
        /\ fut[u].pc = "created" /\ fut[u].c = "TransactionPosition"
        /\ fut[u].raw = <<PoolDash \o KeyX>>
        /\ fut[t].keys # fut[u].keys

\* C19: no step of a get, get_batch or contains, from the call to the
\* result, changes the map; no step of an insert or a remove changes any
\* composite key but the one of its category and raw key.
C19_Frame ==
    [][\A t \in Tasks :
          /\ (fut[t].op \in ReadOps \/ fut'[t].op \in ReadOps) /\ fut'[t] # fut[t]
                => storage' = storage
          /\ fut'[t].op \in {"insert", "remove"} /\ fut'[t] # fut[t]
                => SameOutside(storage, storage', {gen_key(fut'[t].c, fut'[t].raw[1])})]_vars

\* A remove has deleted a record of a store that held two; the other record
\* is still there.
C19_Witness ==
    /\ Resolved(1, "remove", Ok(Unit))
    /\ lastw[CKey(1, 1)] = Removed
    /\ Cardinality(DOMAIN storage) = 1

\* A get_batch of two keys has resolved on a store that holds two records.
C19_ReadLeaves ==
    /\ Resolved(1, "get_batch", Ok(<<Some(ValA), Some(ValB)>>))
    /\ Cardinality(DOMAIN storage) = 2

====
